---- MODULE Spec2Model ----
(***************************************************************************)
(* Order placement and inventory reservation of the e-commerce backend:    *)
(* the product and order collections of the document store, the product    *)
(* service (create_product, get_products, get_product_by_id,               *)
(* update_product_inventory, check_product_availability), the order        *)
(* service (create_order, get_user_orders) and the answers of the routes.  *)
(*                                                                         *)
(* Every store round trip is one atomic step; the steps of different       *)
(* requests (served by any number of workers) interleave freely.           *)
(*                                                                         *)
(* Spec is the whole system.  The properties are checked under parts of    *)
(* it, each with the operations the property is about: SpecCatalog         *)
(* (product creation and decrementSize calls), SpecRace (product creation  *)
(* and attempts to take one unit of one size), SpecOrders (product         *)
(* creation and create_order requests), SpecLockstep (the same, the        *)
(* requests advancing side by side), SpecFaults (the same, with store      *)
(* operations that raise), SpecListing (product creation and the two       *)
(* listings) and SpecCreate (POST /products with its answers, and          *)
(* reservation attempts).                                                  *)
(***************************************************************************)
EXTENDS Integers, Sequences, FiniteSets, TLC

VARIABLES
    products,   \* the products collection, a document's id being its position
    orders,     \* the orders collection, likewise
    created,    \* history: every product document as it was inserted
    calls,      \* history: the decrementSize calls made from outside create_order
    req,        \* the create_order requests being served
    resp        \* history: the last answer to a listing or a POST /products

vars == <<products, orders, created, calls, req, resp>>

(***************************************************************************)
(* Bounds of the model.                                                    *)
(***************************************************************************)
MaxProducts == 2
MaxCalls == 3
MaxProbes == 2
MaxReq == 2
MaxQty == 2

(***************************************************************************)
(* Inputs.                                                                 *)
(***************************************************************************)
\* Identifiers handed to the services: 0 stands for a string that is not a
\* well-formed ObjectId, 1..MaxProducts are the ids the store hands out, and
\* MaxProducts + 1 is a well-formed id no document ever gets.
IdInputs == 0..(MaxProducts + 1)

SizeLabelInputs == {"S", "M", "L"}

QtyInputs == 1..MaxQty

Sz(s, q) == [size |-> s, quantity |-> q]

Body(n, p, s) == [name |-> n, price |-> p, sizes |-> s]

\* Bodies of POST /products: four well-formed ones, and one for each way
\* ProductCreate rejects a body.
ProductInputs ==
    { Body("Shirt", 20, <<Sz("M", 1)>>),
      Body("Shirt", 20, <<Sz("M", 2)>>),
      Body("Shirt", 20, <<Sz("S", 0), Sz("M", 2)>>),
      Body("Shirt", 20, <<Sz("S", 1), Sz("M", 1)>>),
      Body("", 20, <<Sz("M", 1)>>),
      Body("Shirt", 0, <<Sz("M", 1)>>),
      Body("Shirt", 20, << >>),
      Body("Shirt", 20, <<Sz("M", -1)>>),
      Body("Shirt", 20, <<Sz("S", 1), Sz("S", 2)>>) }

It(p, q) == [productId |-> p, qty |-> q]

Order(u, items) == [userId |-> u, items |-> items]

\* Bodies of POST /orders that pass OrderCreate: one item, two products, the
\* same product twice, a second item whose product does not exist, and a
\* malformed product id.
OrderInputs ==
    { Order("u1", <<It(1, 2)>>),
      Order("u2", <<It(1, 2)>>),
      Order("u1", <<It(1, 1), It(2, 1)>>),
      Order("u1", <<It(1, 1), It(1, 1)>>),
      Order("u2", <<It(1, 2), It(MaxProducts + 1, 1)>>),
      Order("u2", <<It(0, 1)>>) }

(***************************************************************************)
(* Helpers on sequences.                                                   *)
(***************************************************************************)
RECURSIVE SumQuantities(_)
SumQuantities(sizes) ==
    IF sizes = << >> THEN 0
    ELSE Head(sizes).quantity + SumQuantities(Tail(sizes))

\* The first of the indexes in S, 0 when there is none.
FirstIndex(S) ==
    IF S = {} THEN 0 ELSE CHOOSE i \in S : \A j \in S : i <= j

(***************************************************************************)
(* bson.ObjectId.is_valid                                                  *)
(***************************************************************************)
ObjectIdIsValid(id) == id >= 1

(***************************************************************************)
(* models/product.py: ProductSize, ProductCreate                           *)
(***************************************************************************)
\* ProductSize: quantity >= 0 (Field ge=0), size not blank (validate_size).
ProductSizeValid(e) == e.quantity >= 0 /\ e.size # ""

\* ProductCreateValid without the duplicate check of validate_sizes.
ProductCreateValid_NoDuplicateCheck(name, price, sizes) ==
    /\ name # ""
    /\ price > 0
    /\ Len(sizes) >= 1
    /\ \A i \in 1..Len(sizes) : ProductSizeValid(sizes[i])

\* ProductCreate: name not empty, price > 0, at least one size, every size
\* entry valid, no label twice (validate_sizes).
ProductCreateValid(name, price, sizes) ==
    /\ name # ""
    /\ price > 0
    /\ Len(sizes) >= 1
    /\ \A i \in 1..Len(sizes) : ProductSizeValid(sizes[i])
    /\ \A i, j \in 1..Len(sizes) : i # j => sizes[i].size # sizes[j].size

(***************************************************************************)
(* ProductService.create_product: insert_one of the product document.      *)
(* The document's id is its position in the collection.  created_at and    *)
(* updated_at are timestamps; updated_at is kept as the number of writes   *)
(* that refreshed it.                                                      *)
(***************************************************************************)
create_product(store, name, price, sizes) ==
    Append(store, [name |-> name, price |-> price, sizes |-> sizes,
                   updated_at |-> 0])

(***************************************************************************)
(* ProductService.get_product_by_id                                        *)
(***************************************************************************)
None == [found |-> FALSE]

\* collection.find_one({"_id": ObjectId(product_id)})
find_one(store, pid) ==
    IF pid \in 1..Len(store) THEN store[pid] ELSE None

\* database/connection.py builds the store handle from pymongo's synchronous
\* MongoClient, so a collection method returns its result (a dict, None, an
\* int) directly and never an awaitable.
DriverResultIsAwaitable == FALSE

\* Product(**product_doc): pydantic validates every size entry as a
\* ProductSize, so a stored negative quantity fails the construction.
ProductModel(pid, doc) ==
    IF \A i \in 1..Len(doc.sizes) : ProductSizeValid(doc.sizes[i])
    THEN [found |-> TRUE, id |-> pid, name |-> doc.name, price |-> doc.price,
          sizes |-> doc.sizes]
    ELSE None

\* `await collection.find_one(...)`: the lookup runs, then awaiting its plain
\* result raises TypeError inside the try block, and the except branch
\* returns None.
get_product_by_id(store, pid) ==
    IF ~ObjectIdIsValid(pid) THEN None
    ELSE LET product_doc == find_one(store, pid) IN
         IF ~DriverResultIsAwaitable THEN None
         ELSE IF product_doc # None THEN ProductModel(pid, product_doc)
         ELSE None

(***************************************************************************)
(* ProductService.check_product_availability: <<available, price>>         *)
(***************************************************************************)
check_product_availability(store, pid, quantity) ==
    LET product == get_product_by_id(store, pid) IN
    IF product = None THEN <<FALSE, 0>>
    ELSE LET total_available == SumQuantities(product.sizes) IN
         IF total_available >= quantity THEN <<TRUE, product.price>>
         ELSE <<FALSE, product.price>>

(***************************************************************************)
(* ProductService.update_product_inventory                                 *)
(*                                                                         *)
(* update_one(filter, update) with                                         *)
(*   filter {"_id": id, "sizes.size": size,                                *)
(*           "sizes.quantity": {"$gte": quantity_used}}                    *)
(*   update {"$inc": {"sizes.$.quantity": -quantity_used},                 *)
(*           "$set": {"updated_at": now}}                                  *)
(* The two conditions on the sizes array are separate dotted-path          *)
(* conditions (no $elemMatch): each is satisfied by any element of the     *)
(* array, not necessarily the same one.                                    *)
(***************************************************************************)
LabelMatches(sizes, size) ==
    \E i \in 1..Len(sizes) : sizes[i].size = size

\* QuantityMatches with $gt in place of $gte.
QuantityMatches_Gt(sizes, quantity_used) ==
    \E i \in 1..Len(sizes) : sizes[i].quantity > quantity_used

QuantityMatches(sizes, quantity_used) ==
    \E i \in 1..Len(sizes) : sizes[i].quantity >= quantity_used

FilterMatches(store, pid, size, quantity_used) ==
    /\ pid \in 1..Len(store)
    /\ LabelMatches(store[pid].sizes, size)
    /\ QuantityMatches(store[pid].sizes, quantity_used)

\* The array position the positional operator `$` stands for.  With several
\* conditions on one array and no $elemMatch the store documents the position
\* as ambiguous: it is the first element matched by one of the array
\* conditions of the filter, whichever the server evaluated last.
PositionalIndexes(sizes, size, quantity_used) ==
    { FirstIndex({ i \in 1..Len(sizes) : sizes[i].size = size }),
      FirstIndex({ i \in 1..Len(sizes) : sizes[i].quantity >= quantity_used }) }

\* The document after $inc on position k and $set of updated_at.
ApplyUpdate(doc, k, quantity_used) ==
    [doc EXCEPT !.sizes[k].quantity = @ - quantity_used,
                !.updated_at = @ + 1]

\* The outcomes of one call: the returned bool and the store afterwards.
update_product_inventory(store, pid, size, quantity_used) ==
    IF ~ObjectIdIsValid(pid) THEN { [ok |-> FALSE, store |-> store] }
    ELSE IF ~FilterMatches(store, pid, size, quantity_used)
    THEN { [ok |-> FALSE, store |-> store] }
    ELSE { [ok |-> TRUE,
            store |-> [store EXCEPT
                         ![pid] = ApplyUpdate(store[pid], k, quantity_used)]] :
           k \in PositionalIndexes(store[pid].sizes, size, quantity_used) }

(***************************************************************************)
(* OrderService.create_order, one store round trip per step.               *)
(*                                                                         *)
(* req[r] is the request r being served: pc is its position in             *)
(* create_order, i the index of the item the current loop is at,           *)
(* unavailable whether an availability check of the request answered       *)
(* False, updates the update_product_inventory calls the request made,     *)
(* known the number of products stored when the request arrived, failed    *)
(* whether a store operation of the request raised, and status the HTTP    *)
(* status POST /orders answered (0 while the request is being served).     *)
(***************************************************************************)
Requests == 1..MaxReq

IdleRequest ==
    [pc |-> "idle", userId |-> "", items |-> << >>, i |-> 0,
     validated |-> << >>, order_total |-> 0, order_id |-> 0, size |-> "",
     unavailable |-> FALSE, outcome |-> "", known |-> 0,
     updates |-> << >>, failed |-> FALSE, status |-> 0]

\* The message of the exception create_order raises for an unavailable item,
\* as re-raised by its except branch.
NotAvailableError == "Failed to create order: Product is not available or insufficient quantity"

\* The message create_order raises when insert_one raised.
StoreError == "Failed to create order: store operation failed"

\* "not available" in str(e) or "insufficient quantity" in str(e), on the
\* messages of the model.
MentionsUnavailable(msg) == msg = NotAvailableError

\* The status the route answers for the outcome of create_order.
HttpStatus(outcome) ==
    IF outcome = "created" THEN 201
    ELSE IF MentionsUnavailable(outcome) THEN 400
    ELSE 500

\* The route answers once create_order has returned or raised.
Respond(q) ==
    IF q.pc = "done" THEN [q EXCEPT !.status = HttpStatus(q.outcome)] ELSE q

\* CheckStep without the `if not available: raise`.
CheckStep_NoRaise(q, store) ==
    LET item == q.items[q.i]
        res == check_product_availability(store, item.productId, item.qty)
    IN  [q EXCEPT
           !.unavailable = @ \/ ~res[1],
           !.validated = Append(@, [productId |-> item.productId,
                                    qty |-> item.qty, price |-> res[2]]),
           !.order_total = @ + res[2] * item.qty,
           !.i = IF q.i < Len(q.items) THEN q.i + 1 ELSE 1,
           !.pc = IF q.i < Len(q.items) THEN "check" ELSE "insert"]

\* The loop over order_data.items: one check_product_availability per item.
CheckStep(q, store) ==
    LET item == q.items[q.i]
        res == check_product_availability(store, item.productId, item.qty)
        available == res[1]
        price == res[2]
    IN  IF ~available
        THEN [q EXCEPT !.pc = "done", !.unavailable = TRUE,
                       !.outcome = NotAvailableError]
        ELSE [q EXCEPT
                !.validated = Append(@, [productId |-> item.productId,
                                         qty |-> item.qty, price |-> price]),
                !.order_total = @ + price * item.qty,
                !.i = IF q.i < Len(q.items) THEN q.i + 1 ELSE 1,
                !.pc = IF q.i < Len(q.items) THEN "check" ELSE "insert"]

\* order_doc, without the timestamps.
OrderDoc(q) ==
    [userId |-> q.userId,
     items |-> [k \in 1..Len(q.validated) |->
                  [productId |-> q.validated[k].productId,
                   qty |-> q.validated[k].qty]],
     total |-> q.order_total]

\* The end of one turn of the inventory loop: the next item, or the return of
\* the order id.
NextItem(q) ==
    IF q.i < Len(q.validated)
    THEN [q EXCEPT !.pc = "reserve", !.i = q.i + 1, !.size = ""]
    ELSE [q EXCEPT !.pc = "done", !.outcome = "created", !.size = ""]

\* The first size of the product read that has enough quantity for the item.
FirstSizeWithEnough(product, qty) ==
    FirstIndex({ i \in 1..Len(product.sizes) :
                    product.sizes[i].quantity >= qty })

\* get_product_by_id and the search of a size in the inventory loop.
ReserveStep(q, store) ==
    LET item == q.validated[q.i]
        product == get_product_by_id(store, item.productId)
    IN  IF product = None THEN NextItem(q)
        ELSE LET k == FirstSizeWithEnough(product, item.qty) IN
             IF k = 0 THEN NextItem(q)
             ELSE [q EXCEPT !.pc = "update", !.size = product.sizes[k].size]

\* The next round trip of request r, decided by its position: an availability
\* check, the insert of the order, the read of a product in the inventory
\* loop, or the update_product_inventory call for the size found.
CreateOrderStep(r) ==
    LET q == req[r] IN
    /\ q.pc \in {"check", "insert", "reserve", "update"}
    /\ CASE q.pc = "check" ->
              /\ req' = [req EXCEPT ![r] = Respond(CheckStep(q, products))]
              /\ UNCHANGED <<products, orders>>
         [] q.pc = "insert" ->
              /\ orders' = Append(orders, OrderDoc(q))
              /\ req' = [req EXCEPT ![r] =
                           [q EXCEPT !.pc = "reserve", !.i = 1,
                                     !.order_id = Len(orders) + 1]]
              /\ UNCHANGED products
         [] q.pc = "reserve" ->
              /\ req' = [req EXCEPT ![r] = Respond(ReserveStep(q, products))]
              /\ UNCHANGED <<products, orders>>
         [] q.pc = "update" ->
              LET item == q.validated[q.i] IN
              \E o \in update_product_inventory(products, item.productId,
                                                q.size, item.qty) :
                 /\ products' = o.store
                 /\ req' = [req EXCEPT ![r] =
                              Respond(NextItem([q EXCEPT !.updates =
                                  Append(@, [pid |-> item.productId,
                                             size |-> q.size,
                                             qty |-> item.qty,
                                             ok |-> o.ok])]))]
                 /\ UNCHANGED orders
    /\ UNCHANGED <<created, calls, resp>>

\* The store operation request r is at raises (the store cannot be reached);
\* an id that is not well formed is turned down before any store operation.
\* get_product_by_id catches the exception and returns None, so an
\* availability check answers (False, 0.0) and the inventory loop skips the
\* item; update_product_inventory catches it and returns False; an exception
\* of insert_one reaches the except branch of create_order.
StoreFailure(r) ==
    LET q == [req[r] EXCEPT !.failed = TRUE] IN
    /\ q.pc \in {"check", "insert", "reserve", "update"}
    /\ q.pc = "check" => ObjectIdIsValid(q.items[q.i].productId)
    /\ q.pc \in {"reserve", "update"} =>
          ObjectIdIsValid(q.validated[q.i].productId)
    /\ req' = [req EXCEPT ![r] = Respond(
         CASE q.pc = "check" ->
                [q EXCEPT !.pc = "done", !.unavailable = TRUE,
                          !.outcome = NotAvailableError]
           [] q.pc = "insert" ->
                [q EXCEPT !.pc = "done", !.outcome = StoreError]
           [] q.pc = "reserve" -> NextItem(q)
           [] q.pc = "update" ->
                NextItem([q EXCEPT !.updates =
                    Append(@, [pid |-> q.validated[q.i].productId,
                               size |-> q.size,
                               qty |-> q.validated[q.i].qty,
                               ok |-> FALSE])]))]
    /\ UNCHANGED <<products, orders, created, calls, resp>>

\* POST /orders: a request body that passed OrderCreate's validation enters
\* create_order.
PlaceOrder(r, userId, items) ==
    /\ req[r].pc = "idle"
    /\ \A k \in 1..(r - 1) : req[k].pc # "idle"
    /\ req' = [req EXCEPT ![r] =
                 [IdleRequest EXCEPT !.pc = "check", !.userId = userId,
                                     !.items = items, !.i = 1,
                                     !.known = Len(products)]]
    /\ UNCHANGED <<products, orders, created, calls, resp>>

(***************************************************************************)
(* POST /products: the body is validated as a ProductCreate, then          *)
(* create_product inserts the document.  A rejected body changes nothing.  *)
(* The route awaits the id string create_product returns, so its answer    *)
(* is an error even though the document is stored.                         *)
(***************************************************************************)
\* The product service's create_product and get_products are plain
\* functions; the routes of /products await what they return.
ServiceResultIsAwaitable == FALSE

\* The body is stored if ProductCreate accepts it.
StoreIfValid(name, price, sizes) ==
    /\ Len(products) < MaxProducts
    /\ products' = IF ProductCreateValid(name, price, sizes)
                   THEN create_product(products, name, price, sizes)
                   ELSE products
    /\ created' = IF Len(products') > Len(products)
                  THEN Append(created, products'[Len(products')])
                  ELSE created
    /\ UNCHANGED <<orders, calls, req>>

\* POST /products, its answer not recorded.
CreateProduct(name, price, sizes) ==
    /\ StoreIfValid(name, price, sizes)
    /\ UNCHANGED resp

\* POST /products with its answer recorded in resp: the body, the number of
\* products before and after, what create_product returned or the error
\* raised, and the HTTP status.
PostProduct(name, price, sizes) ==
    /\ StoreIfValid(name, price, sizes)
    /\ resp' = [op |-> "create_product",
                body |-> Body(name, price, sizes),
                count_before |-> Len(products),
                count_after |-> Len(products'),
                result |-> IF ProductCreateValid(name, price, sizes)
                           THEN [ok |-> TRUE, id |-> Len(products')]
                           ELSE [ok |-> FALSE, error |-> "ValidationError"],
                status |-> IF ~ProductCreateValid(name, price, sizes) THEN 422
                           ELSE IF ServiceResultIsAwaitable THEN 201
                           ELSE 500]

(***************************************************************************)
(* A call of update_product_inventory (the catalog's decrementSize) by any *)
(* caller; calls records each call with its result and the store before    *)
(* and after it.                                                           *)
(***************************************************************************)
DecrementSize(pid, size, qty) ==
    /\ Len(calls) < MaxCalls
    /\ \E o \in update_product_inventory(products, pid, size, qty) :
          /\ products' = o.store
          /\ calls' = Append(calls, [pid |-> pid, size |-> size, qty |-> qty,
                                     ok |-> o.ok, before |-> products,
                                     after |-> o.store])
    /\ UNCHANGED <<orders, created, req, resp>>

(***************************************************************************)
(* The listings: ProductService.get_products and                           *)
(* OrderService.get_user_orders, with their routes.                        *)
(***************************************************************************)
LimitInputs == {1, 2, 100}

OffsetInputs == 0..3

\* "" stands for a filter that is not given.
NameFilterInputs == {"", "shi", "pants"}

SizeFilterInputs == {"", "m", "L"}

UserIdInputs == {"u1", "u2", " "}

NoResponse == [op |-> "none"]

\* str.lower() on the strings of the model.
Lower(s) ==
    CASE s = "Shirt" -> "shirt"
      [] s = "S" -> "s"
      [] s = "M" -> "m"
      [] s = "L" -> "l"
      [] OTHER -> s

\* str.strip() on the strings of the model.
Strip(s) == IF s = " " THEN "" ELSE s

\* a occurs in b, on the strings of the model.
IsSubstring(a, b) ==
    \/ a = b
    \/ a = ""
    \/ <<a, b>> \in { <<"shi", "shirt">>, <<"s", "shirt">>, <<"s", "pants">> }

\* {"$regex": re.escape(name), "$options": "i"}
NameMatches(name, doc) == IsSubstring(Lower(name), Lower(doc.name))

\* {"$elemMatch": {"size": ^size$ ignoring case, "quantity": {"$gt": 0}}}
SizeMatches(size, doc) ==
    \E i \in 1..Len(doc.sizes) :
       /\ Lower(doc.sizes[i].size) = Lower(size)
       /\ doc.sizes[i].quantity > 0

Reverse(s) == [i \in 1..Len(s) |-> s[Len(s) + 1 - i]]

\* cursor.skip(offset).limit(limit)
Window(s, offset, limit) ==
    [i \in 1..(IF Len(s) - offset < 0 THEN 0
               ELSE IF Len(s) - offset < limit THEN Len(s) - offset
               ELSE limit) |-> s[offset + i]]

\* The pagination info both listings compute; an absent offset (None) is the
\* empty sequence, a present one a sequence of one number.
Pagination(total_count, limit, offset) ==
    LET next_offset == IF offset + limit < total_count
                       THEN <<offset + limit>> ELSE << >>
        previous_offset == IF offset > 0
                           THEN <<IF offset - limit > 0 THEN offset - limit
                                  ELSE 0>>
                           ELSE << >>
    IN  [next |-> next_offset,
         limit |-> limit,
         previous |-> IF previous_offset # << >> THEN previous_offset[1]
                      ELSE -limit]

\* The ids of the products the query filter of get_products selects, in the
\* order of the collection.
MatchingProducts(store, name, size) ==
    LET Selected(p) == /\ name # "" => NameMatches(name, store[p])
                       /\ size # "" => SizeMatches(size, store[p])
    IN  SelectSeq([p \in 1..Len(store) |-> p], Selected)

get_products(store, name, size, limit, offset) ==
    LET ids == MatchingProducts(store, name, size)
        total_count == Len(ids)
        page_ids == Window(ids, offset, limit)
    IN  [ok |-> TRUE,
         data |-> [k \in 1..Len(page_ids) |->
                     [id |-> page_ids[k],
                      name |-> store[page_ids[k]].name,
                      price |-> store[page_ids[k]].price]],
         page |-> Pagination(total_count, limit, offset)]

\* The ids of the orders of user_id, newest first.
OrdersOf(ostore, user_id) ==
    LET Selected(o) == ostore[o].userId = user_id
    IN  Reverse(SelectSeq([o \in 1..Len(ostore) |-> o], Selected))

\* One order of the answer, each item with the name of its product as
\* get_product_by_id gives it.
OrderDetails(ostore, pstore, oid) ==
    [id |-> oid,
     items |-> [j \in 1..Len(ostore[oid].items) |->
                  LET item == ostore[oid].items[j]
                      product == get_product_by_id(pstore, item.productId)
                  IN  [productDetails |->
                         [name |-> IF product # None THEN product.name
                                   ELSE "Product Not Found",
                          id |-> item.productId],
                       qty |-> item.qty]],
     total |-> ostore[oid].total]

RetrieveOrdersError == "Failed to retrieve orders"

\* get_user_orders awaits the result of count_documents first.
get_user_orders(ostore, pstore, user_id, limit, offset) ==
    IF ~DriverResultIsAwaitable
    THEN [ok |-> FALSE, error |-> RetrieveOrdersError]
    ELSE LET ids == OrdersOf(ostore, user_id)
             total_count == Len(ids)
             page_ids == Window(ids, offset, limit)
         IN  [ok |-> TRUE,
              data |-> [k \in 1..Len(page_ids) |->
                          OrderDetails(ostore, pstore, page_ids[k])],
              page |-> Pagination(total_count, limit, offset)]

\* GET /products.  total_count records how many products the filter selected.
ListProducts(name, size, limit, offset) ==
    /\ resp' = [op |-> "get_products", limit |-> limit, offset |-> offset,
                total_count |-> Len(MatchingProducts(products, name, size)),
                result |-> get_products(products, name, size, limit, offset),
                status |-> IF ServiceResultIsAwaitable THEN 200 ELSE 500]
    /\ UNCHANGED <<products, orders, created, calls, req>>

\* GET /orders/{user_id}.  total_count, seen and known record the orders of
\* the user, the orders collection and the number of products at the call.
ListOrders(user_id, limit, offset) ==
    /\ resp' =
         IF Strip(user_id) = ""
         THEN [op |-> "get_user_orders", user_id |-> user_id,
               limit |-> limit, offset |-> offset, total_count |-> 0,
               seen |-> orders, known |-> Len(products),
               result |-> [ok |-> FALSE, error |-> "User ID cannot be empty"],
               status |-> 400]
         ELSE LET result == get_user_orders(orders, products, Strip(user_id),
                                            limit, offset)
              IN  [op |-> "get_user_orders", user_id |-> user_id,
                   limit |-> limit, offset |-> offset,
                   total_count |-> Len(OrdersOf(orders, Strip(user_id))),
                   seen |-> orders, known |-> Len(products),
                   result |-> result,
                   status |-> IF result.ok THEN 200 ELSE 500]
    /\ UNCHANGED <<products, orders, created, calls, req>>

Init ==
    /\ products = << >>
    /\ orders = << >>
    /\ created = << >>
    /\ calls = << >>
    /\ req = [r \in Requests |-> IdleRequest]
    /\ resp = NoResponse

NextProduct ==
    \E b \in ProductInputs : CreateProduct(b.name, b.price, b.sizes)

\* POST /products with the answer recorded.
NextPost ==
    \E b \in ProductInputs : PostProduct(b.name, b.price, b.sizes)

\* decrementSize calls with any arguments.
NextDecrement ==
    /\ Len(calls) < MaxProbes
    /\ \E pid \in IdInputs, size \in SizeLabelInputs, qty \in QtyInputs :
          DecrementSize(pid, size, qty)

\* Reservation attempts racing for one unit of one size.
NextRace ==
    \E pid \in 1..MaxProducts : DecrementSize(pid, "M", 1)

NextOrder ==
    \/ \E r \in Requests, b \in OrderInputs :
          PlaceOrder(r, b.userId, b.items)
    \/ \E r \in Requests : CreateOrderStep(r)

NextFault == \E r \in Requests : StoreFailure(r)

NextListing ==
    \/ \E name \in NameFilterInputs, size \in SizeFilterInputs,
          limit \in LimitInputs, offset \in OffsetInputs :
          ListProducts(name, size, limit, offset)
    \/ \E user_id \in UserIdInputs, limit \in LimitInputs,
          offset \in OffsetInputs :
          ListOrders(user_id, limit, offset)

Next ==
    \/ NextProduct \/ NextPost \/ NextDecrement \/ NextOrder \/ NextFault
    \/ NextListing

Spec == Init /\ [][Next]_vars

\* The catalog alone: product creation and decrementSize calls.
SpecCatalog == Init /\ [][NextProduct \/ NextDecrement]_vars

\* Product creation and reservation attempts of one unit of size "M".
SpecRace == Init /\ [][NextProduct \/ NextRace]_vars

\* Product creation and order placement, without outside decrementSize calls.
SpecOrders == Init /\ [][NextProduct \/ NextOrder]_vars

\* How far a request is into create_order.
PcRank(pc) ==
    CASE pc = "idle" -> 0
      [] pc = "check" -> 1
      [] pc = "insert" -> 2
      [] pc = "reserve" -> 3
      [] pc = "update" -> 4
      [] pc = "done" -> 5

\* The requests served side by side, none running ahead of another: each
\* await of create_order hands control to the request that is furthest behind.
NextLockstep ==
    \E r \in Requests :
       /\ \A o \in Requests : PcRank(req[r].pc) <= PcRank(req[o].pc)
       /\ \/ \E b \in OrderInputs : PlaceOrder(r, b.userId, b.items)
          \/ CreateOrderStep(r)

\* Product creation and order placement with a store that can fail.
SpecFaults == Init /\ [][NextProduct \/ NextOrder \/ NextFault]_vars

\* Product creation with its answers, and reservation attempts.
SpecCreate == Init /\ [][NextPost \/ NextRace]_vars

\* Product creation and the two listings.
SpecListing == Init /\ [][NextProduct \/ NextListing]_vars

\* Product creation and order requests that overlap step by step.
SpecLockstep == Init /\ [][NextProduct \/ NextLockstep]_vars

(***************************************************************************)
(* Properties.                                                             *)
(***************************************************************************)
ProductIds == 1..Len(products)

\* The size entry of the product that carries the label has enough quantity.
LabelledEntryHasEnough(store, pid, size, qty) ==
    /\ pid \in 1..Len(store)
    /\ \E i \in 1..Len(store[pid].sizes) :
          /\ store[pid].sizes[i].size = size
          /\ store[pid].sizes[i].quantity >= qty

C2_TrueOnlyIfLabelledEntryHasEnough ==
    \A k \in 1..Len(calls) :
        LET c == calls[k] IN
        /\ c.ok <=> LabelledEntryHasEnough(c.before, c.pid, c.size, c.qty)
        /\ ~c.ok => c.after = c.before

\* C3: a successful decrementSize subtracts exactly qty from the entry
\* labelled `size` and leaves every other entry, the labels and their order,
\* the name, the price and every other product as they were.
C3_OnlyLabelledEntryChanges ==
    \A k \in 1..Len(calls) :
        LET c == calls[k] IN
        c.ok =>
          /\ Len(c.after) = Len(c.before)
          /\ \A p \in 1..Len(c.before) :
               /\ c.after[p].name = c.before[p].name
               /\ c.after[p].price = c.before[p].price
               /\ Len(c.after[p].sizes) = Len(c.before[p].sizes)
               /\ \A i \in 1..Len(c.before[p].sizes) :
                    LET old == c.before[p].sizes[i]
                        new == c.after[p].sizes[i]
                    IN  /\ new.size = old.size
                        /\ new.quantity =
                             IF p = c.pid /\ old.size = c.size
                             THEN old.quantity - c.qty
                             ELSE old.quantity

\* The attempts made against product p while it existed.
AttemptsOn(p) ==
    { k \in 1..Len(calls) : calls[k].pid = p /\ p \in 1..Len(calls[k].before) }

FirstAttemptOn(p) ==
    CHOOSE k \in AttemptsOn(p) : \A j \in AttemptsOn(p) : k <= j

\* Product p had the single size entry "M" with quantity 1 when the first
\* attempt against it was made, and N >= 1 attempts of one unit were made.
RaceOn(p) ==
    /\ AttemptsOn(p) # {}
    /\ calls[FirstAttemptOn(p)].before[p].sizes = <<Sz("M", 1)>>
    /\ \A k \in AttemptsOn(p) : calls[k].size = "M" /\ calls[k].qty = 1

\* C4: of N >= 1 attempts to take one unit of a product's single size entry
\* of quantity 1, in any order, exactly one returns true, the other N-1
\* return false, and the quantity ends at 0.
C4_ExactlyOneAttemptWins ==
    \A p \in ProductIds :
        RaceOn(p) =>
          /\ Cardinality({ k \in AttemptsOn(p) : calls[k].ok }) = 1
          /\ Cardinality({ k \in AttemptsOn(p) : ~calls[k].ok }) =
                Cardinality(AttemptsOn(p)) - 1
          /\ products[p].sizes[1].quantity = 0

C4_Witness ==
    \E p \in ProductIds : RaceOn(p) /\ Cardinality(AttemptsOn(p)) >= 3

Competing(a, b, p) ==
    /\ a # b
    /\ req[a].items # << >> /\ req[b].items # << >>
    /\ Len(req[a].items) = 1 /\ Len(req[b].items) = 1
    /\ req[a].items[1].productId = p /\ req[b].items[1].productId = p
    /\ p \in 1..req[a].known /\ p \in 1..req[b].known
    /\ Len(created[p].sizes) = 1
    /\ req[a].items[1].qty <= created[p].sizes[1].quantity
    /\ req[b].items[1].qty <= created[p].sizes[1].quantity
    /\ req[a].items[1].qty + req[b].items[1].qty > created[p].sizes[1].quantity

\* Request r decremented a quantity.
Decremented(r) ==
    \E k \in 1..Len(req[r].updates) : req[r].updates[k].ok

\* C11: when two create_order requests for the same product, whose combined
\* quantity exceeds the stock, are served side by side, both pass the
\* availability check and both orders are persisted while only one of them
\* has its quantity decremented.
C11_BothPersistedOneReserved ==
    \A a, b \in Requests : \A p \in ProductIds :
        ( /\ Competing(a, b, p)
          /\ \A r \in Requests : req[r].pc = "done" )
        =>
          /\ ~req[a].unavailable /\ ~req[b].unavailable
          /\ req[a].order_id # 0 /\ req[b].order_id # 0
          /\ req[a].order_id # req[b].order_id
          /\ Decremented(a) # Decremented(b)

\* The last answer is that of a listing that was given a user id, if it
\* takes one.
ListingAnswered ==
    \/ resp.op = "get_products"
    \/ resp.op = "get_user_orders" /\ Strip(resp.user_id) # ""

\* C12: for every totalCount, limit and offset, the product listing and the
\* order listing return page metadata with next = offset + limit when
\* offset + limit < totalCount and null otherwise, and previous =
\* max(0, offset - limit) when offset > 0 and -limit when offset = 0.
C12_PageMetadata ==
    ListingAnswered =>
      /\ resp.result.ok
      /\ resp.result.page.next =
            IF resp.offset + resp.limit < resp.total_count
            THEN <<resp.offset + resp.limit>> ELSE << >>
      /\ resp.result.page.previous =
            IF resp.offset = 0 THEN -resp.limit
            ELSE IF resp.offset - resp.limit > 0
                 THEN resp.offset - resp.limit ELSE 0

\* The orders of the user that the listing was asked for, among those
\* persisted at the call.
UserOrders == { o \in 1..Len(resp.seen) : resp.seen[o].userId = Strip(resp.user_id) }

\* How many orders of the user are newer than order o.
NewerThan(o) == Cardinality({ n \in UserOrders : n > o })

\* C13: get_user_orders(userId, limit, offset) returns exactly the orders at
\* positions [offset, offset + limit) of the persisted orders of that user,
\* newest first, never an order of another user, and each item carries the
\* name of its product, or "Product Not Found" when there is none.
C13_WindowOfUserOrders ==
    (resp.op = "get_user_orders" /\ Strip(resp.user_id) # "") =>
      /\ resp.result.ok
      /\ Len(resp.result.data) =
            Cardinality({ o \in UserOrders :
                            /\ NewerThan(o) >= resp.offset
                            /\ NewerThan(o) < resp.offset + resp.limit })
      /\ \A k \in 1..Len(resp.result.data) :
            LET d == resp.result.data[k] IN
            /\ d.id \in UserOrders
            /\ NewerThan(d.id) = resp.offset + k - 1
            /\ Len(d.items) = Len(resp.seen[d.id].items)
            /\ \A j \in 1..Len(d.items) :
                  LET pid == resp.seen[d.id].items[j].productId IN
                  /\ d.items[j].qty = resp.seen[d.id].items[j].qty
                  /\ d.items[j].productDetails.id = pid
                  /\ d.items[j].productDetails.name =
                        IF pid \in 1..resp.known THEN created[pid].name
                        ELSE "Product Not Found"

\* C14: POST /orders answers 201 when the order is created, 400 when an item
\* is unavailable (product missing or insufficient stock) and 500 when the
\* request fails on a store failure; a store failure is never answered 400
\* and an unavailable item never 500.
C14_StatusOfCreateOrder ==
    \A r \in Requests :
        LET q == req[r] IN
        q.pc = "done" =>
          /\ q.outcome = "created" => q.status = 201
          /\ (q.outcome # "created" /\ q.failed) => q.status = 500
          /\ (q.outcome # "created" /\ ~q.failed /\ q.unavailable)
                => q.status = 400

\* A body of one of the five kinds to be rejected: empty name, price <= 0,
\* no sizes, a negative quantity, or the same label twice.
Rejectable(b) ==
    \/ b.name = ""
    \/ b.price <= 0
    \/ b.sizes = << >>
    \/ \E i \in 1..Len(b.sizes) : b.sizes[i].quantity < 0
    \/ \E i, j \in 1..Len(b.sizes) :
          i # j /\ b.sizes[i].size = b.sizes[j].size

\* C15: creating a product fails with a ValidationError and persists no
\* product when the name is empty, the price is <= 0, the sizes are empty,
\* a quantity is negative or two size entries carry the same label; hence
\* no stored product ever has two size entries with the same size string.
C15_InvalidProductRejected ==
    /\ (resp.op = "create_product" /\ Rejectable(resp.body)) =>
          /\ ~resp.result.ok
          /\ resp.result.error = "ValidationError"
          /\ resp.count_after = resp.count_before
    /\ \A p \in 1..Len(created) :
          ~Rejectable(Body(created[p].name, created[p].price, created[p].sizes))
    /\ \A p \in ProductIds : \A i, j \in 1..Len(products[p].sizes) :
          i # j => products[p].sizes[i].size # products[p].sizes[j].size

\* A body with the same label twice was turned down while a product with
\* two sizes is stored and one of its quantities has been decremented.
C15_Witness ==
    /\ resp.op = "create_product"
    /\ \E i, j \in 1..Len(resp.body.sizes) :
          i # j /\ resp.body.sizes[i].size = resp.body.sizes[j].size
    /\ ~resp.result.ok
    /\ \E p \in ProductIds :
          /\ Len(products[p].sizes) = 2
          /\ products[p] # created[p]

\* C8: with no other request in flight, create_order of one item
\* {productId, qty} for a product with a single size entry of quantity
\* q >= qty and price p succeeds, persists exactly one order with total
\* p * qty and leaves the quantity at q - qty.
C8_SingleItemOrderSucceeds ==
    \A r \in Requests :
        LET q == req[r] IN
        ( /\ q.pc = "done"
          /\ \A o \in Requests \ {r} : req[o].pc = "idle"
          /\ calls = << >>
          /\ Len(q.items) = 1
          /\ q.items[1].productId \in 1..q.known
          /\ Len(created[q.items[1].productId].sizes) = 1
          /\ q.items[1].qty <= created[q.items[1].productId].sizes[1].quantity )
        =>
        LET pid == q.items[1].productId
            qty == q.items[1].qty
        IN  /\ q.outcome = "created"
            /\ Len(orders) = 1
            /\ orders[1].total = created[pid].price * qty
            /\ products[pid].sizes[1].quantity =
                  created[pid].sizes[1].quantity - qty

\* What checkAvailability is to answer: available exactly when the product
\* exists and the sum of its quantities is >= qty, with the product's price,
\* and (false, 0) when the product is not found or the id is malformed.
AvailabilityExpected(store, pid, qty) ==
    IF pid \in 1..Len(store)
    THEN <<SumQuantities(store[pid].sizes) >= qty, store[pid].price>>
    ELSE <<FALSE, 0>>

\* C9: checkAvailability(productId, qty) answers available exactly when the
\* product exists and the sum of the quantities of its size entries is
\* >= qty, with the product's price either way, and (false, 0) for a missing
\* product or a malformed id.
C9_AvailabilityIsSumOfSizes ==
    \A pid \in IdInputs, qty \in QtyInputs :
        check_product_availability(products, pid, qty) =
            AvailabilityExpected(products, pid, qty)

====
